---- MODULE Spec2Model ----
(***************************************************************************)
(* Model of pennylane/interfaces/batch/__init__.py: the tape fingerprint   *)
(* (tape_hash), the caching batch runner (execute_fn_wrapper) and the      *)
(* gradient-mode dispatcher (execute).                                     *)
(*                                                                         *)
(* Python lists are 0-based; the sequences below are 1-based, so index i   *)
(* of the model is index i-1 of the code.                                  *)
(***************************************************************************)
EXTENDS Integers, Sequences, FiniteSets, TLC

VARIABLES
    heap,        \* dict objects used as caches: object id -> (fingerprint -> result)
    G,           \* the options dict the caller holds: which keys it has, and the cache it refers to
    pc,          \* position of the caller: "idle", "autodiff", "returned", "raised"
    w,           \* frame of the last execute_fn_wrapper call made directly by the caller
    e,           \* frame of the execute call in progress or just completed
    hf,          \* two tapes and, once computed, their fingerprints
    hist,        \* history of the calls that shared the cache U
    backend      \* "any", or the result the backend gives for each fingerprint

vars == <<heap, G, pc, w, e, hf, hist, backend>>

\* what the operations on caches and options leave alone
aux == <<hf, hist, backend>>

(***************************************************************************)
(* Bounds                                                                  *)
(***************************************************************************)
MaxBatch == 3        \* longest batch of tapes handed to one call
MaxCallbacks == 2    \* most invocations of execute_fn / gradient_fn by the integration in one execute call
MaxOps == 2          \* most operations of a tape whose fingerprint is compared
MaxMeas == 1         \* most measurements of a tape whose fingerprint is compared
MaxCount == 2        \* submissions of one fingerprint are counted up to this number

(***************************************************************************)
(* Tapes.  An operation is <<name, wires, data>>, a measurement is         *)
(* <<name, wires, data, return_type>>.  A parameter of data is             *)
(* <<kind, n>>: a Python float ("float") or a numpy array ("array") whose  *)
(* value is n * 10^-9.                                                     *)
(***************************************************************************)
TapeA == [operations   |-> << <<"RX", <<0>>, << <<"float", 100000000>> >> >> >>,
          measurements |-> << <<"PauliZ", <<0>>, << >>, "expval">> >>]

TapeB == [operations   |-> << <<"RY", <<1>>, << <<"float", 100000000>> >> >>,
                              <<"CNOT", <<0, 1>>, << >> >> >>,
          measurements |-> << <<"Identity", <<0>>, << >>, "probs">> >>]

TapeC == [operations   |-> << <<"QubitUnitary", <<0>>, << <<"array", 123456789>> >> >> >>,
          measurements |-> << <<"PauliZ", <<0>>, << >>, "expval">> >>]

\* differs from TapeC in the ninth decimal of its array parameter only
TapeD == [operations   |-> << <<"QubitUnitary", <<0>>, << <<"array", 123456791>> >> >> >>,
          measurements |-> << <<"PauliZ", <<0>>, << >>, "expval">> >>]

Tapes == {TapeA, TapeB, TapeC, TapeD}

Results == {"R1", "R2"}

RECURSIVE SeqsUpTo(_, _)
SeqsUpTo(S, n) ==
    IF n = 0 THEN {<< >>}
    ELSE LET shorter == SeqsUpTo(S, n - 1)
         IN  shorter \cup {Append(s, x) : s \in {t \in shorter : Len(t) = n - 1}, x \in S}

Batches == SeqsUpTo(Tapes, MaxBatch)

\* the batches the integration hands to execute_fn
ExecBatches == {<<TapeA>>, <<TapeB>>, <<TapeA, TapeB>>}

(***************************************************************************)
(* tape_hash                                                               *)
(***************************************************************************)
\* str(x) of one parameter inside a list: repr of a float is exact, repr of
\* an array prints 8 decimals
StrParam(p) ==
    IF p[1] = "array" THEN <<"array", (p[2] + 5) \div 10>> ELSE <<"float", p[2]>>

\* str(op.data): the list's rendering is the rendering of its elements
StrData(data) == <<"str", [k \in 1..Len(data) |-> StrParam(data[k])]>>

\* the items one operation contributes: (str(op.name), tuple(op.wires.tolist()), str(op.data))
OpItems(op) == << <<"str", op[1]>>, <<"tuple", op[2]>>, StrData(op[3]) >>

\* the items one measurement contributes: the same three and op.return_type
MeasItems(m) == << <<"str", m[1]>>, <<"tuple", m[2]>>, StrData(m[3]), <<"enum", m[4]>> >>

RECURSIVE Flatten(_)
Flatten(lists) ==
    IF lists = << >> THEN << >> ELSE Head(lists) \o Flatten(Tail(lists))

\* The fingerprint is hash(tuple); the model keeps the tuple that is hashed.
tape_hash(tape) ==
    Flatten([k \in 1..Len(tape.operations) |-> OpItems(tape.operations[k])]
            \o [k \in 1..Len(tape.measurements) |-> MeasItems(tape.measurements[k])])

Fingerprints == {tape_hash(t) : t \in Tapes}

EmptyDict == [h \in {} |-> "R1"]

\* every dict from fingerprints to results
Dicts == UNION {[D -> Results] : D \in SUBSET Fingerprints}

(***************************************************************************)
(* Objects.  None is the absent cache; ObjIds are the dict objects a run   *)
(* can hold at one time ("U" is the cache the caller owns).                *)
(***************************************************************************)
None == "None"
ObjIds == {"U", "o1", "o2", "o3", "o4"}

(***************************************************************************)
(* The backend.  One call of device.batch_execute either raises or returns *)
(* a list of results.                                                      *)
(***************************************************************************)
DevOutcomes == [raises : BOOLEAN, res : SeqsUpTo(Results, MaxBatch + 1)]

(***************************************************************************)
(* execute_fn_wrapper                                                      *)
(***************************************************************************)
\* FirstLoop that also skips a tape whose fingerprint an earlier tape of the
\* batch already put into execution_tapes
RECURSIVE FirstLoopSkipSeen(_, _, _, _)
FirstLoopSkipSeen(tapes, cache, i, acc) ==
    IF i > Len(tapes) THEN acc
    ELSE LET h == tape_hash(tapes[i])
         IN  IF h \in DOMAIN cache
             THEN FirstLoopSkipSeen(tapes, cache, i + 1,
                     [acc EXCEPT !.hashes = Append(@, h),
                                 !.cached_results = (i :> cache[h]) @@ @])
             ELSE IF \E k \in 1..Len(acc.execution_tapes) :
                          tape_hash(acc.execution_tapes[k][2]) = h
                  THEN FirstLoopSkipSeen(tapes, cache, i + 1,
                          [acc EXCEPT !.hashes = Append(@, h)])
                  ELSE FirstLoopSkipSeen(tapes, cache, i + 1,
                          [acc EXCEPT !.hashes = Append(@, h),
                                      !.execution_tapes = Append(@, <<i, tapes[i]>>)])

\* first loop: hashes, cached_results and execution_tapes (an OrderedDict,
\* kept as the sequence of its (index, tape) items in insertion order)
RECURSIVE FirstLoop(_, _, _, _)
FirstLoop(tapes, cache, i, acc) ==
    IF i > Len(tapes) THEN acc
    ELSE LET h == tape_hash(tapes[i])
         IN  IF h \in DOMAIN cache
             THEN FirstLoop(tapes, cache, i + 1,
                     [acc EXCEPT !.hashes = Append(@, h),
                                 !.cached_results = (i :> cache[h]) @@ @])
             ELSE FirstLoop(tapes, cache, i + 1,
                     [acc EXCEPT !.hashes = Append(@, h),
                                 !.execution_tapes = Append(@, <<i, tapes[i]>>)])

\* SecondLoop taking the backend's results from the wrong end (res.pop())
RECURSIVE SecondLoopPopLast(_, _, _, _)
SecondLoopPopLast(tapes, first, i, acc) ==
    IF i > Len(tapes) THEN acc
    ELSE IF i \in DOMAIN first.cached_results
         THEN SecondLoopPopLast(tapes, first, i + 1,
                 [acc EXCEPT !.final_res = Append(@, first.cached_results[i])])
         ELSE IF acc.res = << >>
              THEN [acc EXCEPT !.error = "IndexError"]
              ELSE LET r == acc.res[Len(acc.res)]
                   IN  SecondLoopPopLast(tapes, first, i + 1,
                          [acc EXCEPT !.res = SubSeq(@, 1, Len(@) - 1),
                                      !.final_res = Append(@, r),
                                      !.writes = Append(@, <<first.hashes[i], r>>),
                                      !.cache = (first.hashes[i] :> r) @@ @])

\* SecondLoop that forgets to test for a hit: every index pops a result and
\* stores it under its fingerprint
RECURSIVE SecondLoopNoHitCheck(_, _, _, _)
SecondLoopNoHitCheck(tapes, first, i, acc) ==
    IF i > Len(tapes) THEN acc
    ELSE IF acc.res = << >>
         THEN [acc EXCEPT !.error = "IndexError"]
         ELSE LET r == Head(acc.res)
              IN  SecondLoopNoHitCheck(tapes, first, i + 1,
                     [acc EXCEPT !.res = Tail(@),
                                 !.final_res = Append(@, r),
                                 !.writes = Append(@, <<first.hashes[i], r>>),
                                 !.cache = (first.hashes[i] :> r) @@ @])

\* SecondLoop that never stores a result in the cache
RECURSIVE SecondLoopNoStore(_, _, _, _)
SecondLoopNoStore(tapes, first, i, acc) ==
    IF i > Len(tapes) THEN acc
    ELSE IF i \in DOMAIN first.cached_results
         THEN SecondLoopNoStore(tapes, first, i + 1,
                 [acc EXCEPT !.final_res = Append(@, first.cached_results[i])])
         ELSE IF acc.res = << >>
              THEN [acc EXCEPT !.error = "IndexError"]
              ELSE LET r == Head(acc.res)
                   IN  SecondLoopNoStore(tapes, first, i + 1,
                          [acc EXCEPT !.res = Tail(@),
                                      !.final_res = Append(@, r)])

\* second loop: a hit takes its cached value, a miss pops the head of res
\* and stores it; res.pop(0) on an empty list raises IndexError
RECURSIVE SecondLoop(_, _, _, _)
SecondLoop(tapes, first, i, acc) ==
    IF i > Len(tapes) THEN acc
    ELSE IF i \in DOMAIN first.cached_results
         THEN SecondLoop(tapes, first, i + 1,
                 [acc EXCEPT !.final_res = Append(@, first.cached_results[i])])
         ELSE IF acc.res = << >>
              THEN [acc EXCEPT !.error = "IndexError"]
              ELSE LET r == Head(acc.res)
                   IN  SecondLoop(tapes, first, i + 1,
                          [acc EXCEPT !.res = Tail(@),
                                      !.final_res = Append(@, r),
                                      !.writes = Append(@, <<first.hashes[i], r>>),
                                      !.cache = (first.hashes[i] :> r) @@ @])

\* Passthrough that drops the last tape of the batch before the backend call
PassthroughDropLast(tapes, dev) ==
    [tapes |-> tapes, cache |-> None, pre |-> EmptyDict, post |-> EmptyDict,
     sent |-> <<SubSeq(tapes, 1, Len(tapes) - 1)>>, dev |-> dev,
     error |-> IF dev.raises THEN "DeviceError" ELSE "none", writes |-> << >>,
     final_res |-> IF dev.raises THEN << >> ELSE dev.res]

\* lines 50-51: no cache, the whole batch goes to the backend and its
\* answer is returned as it is
Passthrough(tapes, dev) ==
    [tapes |-> tapes, cache |-> None, pre |-> EmptyDict, post |-> EmptyDict,
     sent |-> <<tapes>>, dev |-> dev,
     error |-> IF dev.raises THEN "DeviceError" ELSE "none", writes |-> << >>,
     final_res |-> IF dev.raises THEN << >> ELSE dev.res]

\* Cached that empties the cache when the backend raises
CachedClearsOnError(tapes, c, h, dev) ==
    LET first == FirstLoop(tapes, h[c], 1,
                    [hashes |-> << >>, cached_results |-> << >>, execution_tapes |-> << >>])
        values == [k \in 1..Len(first.execution_tapes) |-> first.execution_tapes[k][2]]
        second == SecondLoop(tapes, first, 1,
                    [res |-> dev.res, final_res |-> << >>, cache |-> h[c],
                     writes |-> << >>, error |-> "none"])
    IN  IF dev.raises
        THEN [tapes |-> tapes, cache |-> c, pre |-> h[c], post |-> EmptyDict,
              sent |-> <<values>>, dev |-> dev,
              error |-> "DeviceError", writes |-> << >>, final_res |-> << >>]
        ELSE [tapes |-> tapes, cache |-> c, pre |-> h[c], post |-> second.cache,
              sent |-> <<values>>, dev |-> dev,
              error |-> second.error, writes |-> second.writes,
              final_res |-> IF second.error = "none" THEN second.final_res ELSE << >>]

\* lines 53-76: the call with cache object c of heap h
Cached(tapes, c, h, dev) ==
    LET first == FirstLoop(tapes, h[c], 1,
                    [hashes |-> << >>, cached_results |-> << >>, execution_tapes |-> << >>])
        values == [k \in 1..Len(first.execution_tapes) |-> first.execution_tapes[k][2]]
        second == SecondLoop(tapes, first, 1,
                    [res |-> dev.res, final_res |-> << >>, cache |-> h[c],
                     writes |-> << >>, error |-> "none"])
    IN  IF dev.raises
        THEN [tapes |-> tapes, cache |-> c, pre |-> h[c], post |-> h[c],
              sent |-> <<values>>, dev |-> dev,
              error |-> "DeviceError", writes |-> << >>, final_res |-> << >>]
        ELSE [tapes |-> tapes, cache |-> c, pre |-> h[c], post |-> second.cache,
              sent |-> <<values>>, dev |-> dev,
              error |-> second.error, writes |-> second.writes,
              final_res |-> IF second.error = "none" THEN second.final_res ELSE << >>]

\* One call execute_fn_wrapper(tapes, device, cache=c) where c is None or an
\* object of heap h, against a backend that answers dev.  The result is the
\* frame at the end of the call: what the backend was sent (one sequence per
\* call of batch_execute), the cache before and after, the error raised and
\* the first component of the returned pair.
execute_fn_wrapper(tapes, c, h, dev) ==
    IF c = None THEN Passthrough(tapes, dev) ELSE Cached(tapes, c, h, dev)

NoFrame == [tapes |-> << >>, cache |-> None, pre |-> EmptyDict, post |-> EmptyDict,
            sent |-> << >>, dev |-> [raises |-> FALSE, res |-> << >>],
            error |-> "nocall", writes |-> << >>, final_res |-> << >>]

\* the answers a backend can give to a batch of n tapes: an error, or a list
\* one shorter, as long, or one longer than the batch
Answers(n) == {d \in DevOutcomes : IF d.raises THEN d.res = << >>
                                   ELSE Len(d.res) \in {n - 1, n, n + 1}}

\* no fingerprint computed yet
NoHash == [done |-> FALSE, a |-> TapeA, b |-> TapeA, ka |-> << >>, kb |-> << >>]

\* no call recorded yet
NoHist == [submitted |-> [h \in Fingerprints |-> 0],
           returned |-> [h \in Fingerprints |-> 0],
           mem |-> NoFrame, now |-> FALSE]

\* the frame of execute before any call
NoExec == [called |-> FALSE, gradient_fn_arg |-> "device", interface |-> "autograd",
           mode |-> "best", passed |-> None, shared |-> FALSE,
           L |-> [other |-> FALSE, cache |-> None],
           pre_cache |-> None, pre_content |-> EmptyDict,
           execute_fn |-> "unbound", gradient_fn |-> None, injected |-> None,
           routed |-> FALSE, error |-> <<"none">>, devlog |-> << >>, ncb |-> 0]

Init ==
    /\ heap = [o \in ObjIds |-> EmptyDict]
    /\ G = [other |-> FALSE, cache |-> None]
    /\ pc = "idle"
    /\ w = NoFrame
    /\ e = NoExec
    /\ hf = NoHash
    /\ hist = NoHist
    /\ backend = "any"

\* the caller runs one batch through execute_fn_wrapper, with its cache U or
\* with no cache
RunBatch ==
    /\ pc = "idle"
    /\ \E tapes \in Batches, c \in {None, "U"} :
         LET n == IF c = None THEN Len(tapes)
                  ELSE Cardinality({i \in 1..Len(tapes) : tape_hash(tapes[i]) \notin DOMAIN heap[c]})
         IN  \E dev \in Answers(n) :
                LET f == execute_fn_wrapper(tapes, c, heap, dev)
                IN  /\ w' = f
                    /\ heap' = IF c = None THEN heap ELSE [heap EXCEPT ![c] = f.post]
                    /\ pc' = IF f.error = "none" THEN "returned" ELSE "raised"
    /\ UNCHANGED <<G, e>>
    /\ UNCHANGED aux

\* the caller takes the returned value or the exception; the frame is gone,
\* and so is every dict that only the frame referred to
Resume ==
    /\ pc \in {"returned", "raised"}
    /\ pc' = "idle"
    /\ w' = NoFrame
    /\ e' = NoExec
    /\ heap' = [o \in ObjIds |-> IF o \in {"U", G.cache} THEN heap[o] ELSE EmptyDict]
    /\ UNCHANGED G
    /\ UNCHANGED aux

NextW == RunBatch \/ Resume

SpecW == Init /\ [][NextW]_vars

(***************************************************************************)
(* execute                                                                 *)
(***************************************************************************)
GradientFns == {"device", "transform"}
Interfaces == {"autograd", "torch", "tf"}
Modes == {"forward", "backward", "best", "other"}

\* an options dict: whether it has keys other than "cache", and the object
\* under its "cache" key (None: no such key)
OptionDicts == [other : BOOLEAN, cache : {None, "U"}]

\* truth value of a dict: it has at least one key
Truthy(d) == d.other \/ d.cache # None

\* the dict the local variable gradient_kwargs of the call refers to: the
\* caller's dict G, or the dict line 159 made
GK == IF e.shared THEN G ELSE e.L

\* the objects something still refers to
Live == ({"U", G.cache, e.L.cache, e.injected}) \ {None}

\* a new dict object
NewObj == CHOOSE o \in ObjIds \ Live : TRUE

\* Dispatch without the rejection of a gradient transform in forward mode
DispatchNoForwardCheck(gradient_fn, mode) ==
    IF gradient_fn = "device"
    THEN IF mode \in {"forward", "best"}
         THEN [raises |-> FALSE, inject |-> FALSE,
               execute_fn |-> "device.execute_and_gradients", gradient_fn |-> None]
         ELSE IF mode = "backward"
              THEN [raises |-> FALSE, inject |-> FALSE,
                    execute_fn |-> "lambda: device.batch_execute",
                    gradient_fn |-> "device.gradients"]
              ELSE [raises |-> FALSE, inject |-> FALSE,
                    execute_fn |-> "unbound", gradient_fn |-> gradient_fn]
    ELSE [raises |-> FALSE, inject |-> TRUE,
          execute_fn |-> "lambda: execute_fn_wrapper", gradient_fn |-> gradient_fn]

\* Dispatch that treats mode "best" of the native strategy as "backward"
DispatchBestIsBackward(gradient_fn, mode) ==
    IF gradient_fn = "device"
    THEN IF mode \in {"forward"}
         THEN [raises |-> FALSE, inject |-> FALSE,
               execute_fn |-> "device.execute_and_gradients", gradient_fn |-> None]
         ELSE IF mode \in {"backward", "best"}
              THEN [raises |-> FALSE, inject |-> FALSE,
                    execute_fn |-> "lambda: device.batch_execute",
                    gradient_fn |-> "device.gradients"]
              ELSE [raises |-> FALSE, inject |-> FALSE,
                    execute_fn |-> "unbound", gradient_fn |-> gradient_fn]
    ELSE IF mode = "forward"
         THEN [raises |-> TRUE, inject |-> FALSE,
               execute_fn |-> "unbound", gradient_fn |-> gradient_fn]
         ELSE [raises |-> FALSE, inject |-> TRUE,
               execute_fn |-> "lambda: execute_fn_wrapper", gradient_fn |-> gradient_fn]

\* Dispatch whose transform branch keeps whatever cache the options hold
DispatchNoInject(gradient_fn, mode) ==
    IF gradient_fn = "device"
    THEN IF mode \in {"forward", "best"}
         THEN [raises |-> FALSE, inject |-> FALSE,
               execute_fn |-> "device.execute_and_gradients", gradient_fn |-> None]
         ELSE IF mode = "backward"
              THEN [raises |-> FALSE, inject |-> FALSE,
                    execute_fn |-> "lambda: device.batch_execute",
                    gradient_fn |-> "device.gradients"]
              ELSE [raises |-> FALSE, inject |-> FALSE,
                    execute_fn |-> "unbound", gradient_fn |-> gradient_fn]
    ELSE IF mode = "forward"
         THEN [raises |-> TRUE, inject |-> FALSE,
               execute_fn |-> "unbound", gradient_fn |-> gradient_fn]
         ELSE [raises |-> FALSE, inject |-> FALSE,
               execute_fn |-> "lambda: execute_fn_wrapper", gradient_fn |-> gradient_fn]

\* lines 161-181: the branch taken for (gradient_fn, mode)
Dispatch(gradient_fn, mode) ==
    IF gradient_fn = "device"
    THEN IF mode \in {"forward", "best"}
         THEN [raises |-> FALSE, inject |-> FALSE,
               execute_fn |-> "device.execute_and_gradients", gradient_fn |-> None]
         ELSE IF mode = "backward"
              THEN [raises |-> FALSE, inject |-> FALSE,
                    execute_fn |-> "lambda: device.batch_execute",
                    gradient_fn |-> "device.gradients"]
              ELSE [raises |-> FALSE, inject |-> FALSE,
                    execute_fn |-> "unbound", gradient_fn |-> gradient_fn]
    ELSE IF mode = "forward"
         THEN [raises |-> TRUE, inject |-> FALSE,
               execute_fn |-> "unbound", gradient_fn |-> gradient_fn]
         ELSE [raises |-> FALSE, inject |-> TRUE,
               execute_fn |-> "lambda: execute_fn_wrapper", gradient_fn |-> gradient_fn]

\* InterfaceCheck that also lets "torch" through
InterfaceCheckTorch(interface) ==
    IF interface \in {"autograd", "torch"} THEN <<"none">>
    ELSE <<"ValueError", "Unknown interface", interface>>

\* lines 183-186: the error of the interface check, <<"none">> when it passes
InterfaceCheck(interface) ==
    IF interface = "autograd" THEN <<"none">>
    ELSE <<"ValueError", "Unknown interface", interface>>

\* lines 188-190: the object the "cache" key refers to after the cleanup, for
\* an options dict d and a new object fresh
Cleanup(d, fresh) == IF d.cache # None THEN fresh ELSE d.cache

\* the options dict with its "cache" key set to object c
SetCache(c) ==
    /\ G' = IF e.shared THEN [G EXCEPT !.cache = c] ELSE G
    /\ e' = IF e.shared THEN e ELSE [e EXCEPT !.L.cache = c]

\* the caller builds the options dict it will pass
CallerSetsOptions ==
    /\ pc = "idle"
    /\ \E d \in OptionDicts : G' = d
    /\ UNCHANGED <<heap, pc, w, e>>
    /\ UNCHANGED aux

\* lines 159-186, up to the call of execute_autograd: the caller calls
\* execute with gradient_fn, interface, mode and either no options or G
ExecuteBegin ==
    /\ pc = "idle"
    /\ \E gradient_fn \in GradientFns, interface \in Interfaces, mode \in Modes,
          passed \in {None, "G"} :
         LET shared == passed = "G" /\ Truthy(G)
             gk == IF shared THEN G ELSE [other |-> FALSE, cache |-> None]
             d == Dispatch(gradient_fn, mode)
             obj == CHOOSE o \in ObjIds \ ({"U", G.cache} \ {None}) : TRUE
             frame == [called |-> TRUE, gradient_fn_arg |-> gradient_fn,
                       interface |-> interface, mode |-> mode, passed |-> passed,
                       shared |-> shared,
                       L |-> IF shared THEN [other |-> FALSE, cache |-> None]
                             ELSE IF d.inject THEN [gk EXCEPT !.cache = obj] ELSE gk,
                       pre_cache |-> IF passed = "G" THEN G.cache ELSE None,
                       pre_content |-> IF passed = "G" /\ G.cache # None
                                       THEN heap[G.cache] ELSE EmptyDict,
                       execute_fn |-> d.execute_fn, gradient_fn |-> d.gradient_fn,
                       injected |-> IF d.inject THEN obj ELSE None,
                       routed |-> FALSE, error |-> <<"none">>,
                       devlog |-> << >>, ncb |-> 0]
         IN  /\ G' = IF shared /\ d.inject THEN [G EXCEPT !.cache = obj] ELSE G
             /\ heap' = IF d.inject THEN [heap EXCEPT ![obj] = EmptyDict] ELSE heap
             /\ IF d.raises
                THEN /\ pc' = "raised"
                     /\ e' = [frame EXCEPT !.error =
                                <<"ValueError", "Gradient transforms cannot be used with mode='forward'">>]
                ELSE IF InterfaceCheck(interface) # <<"none">>
                     THEN /\ pc' = "raised"
                          /\ e' = [frame EXCEPT !.error = InterfaceCheck(interface)]
                     ELSE IF d.execute_fn = "unbound"
                          THEN /\ pc' = "raised"
                               /\ e' = [frame EXCEPT !.error = <<"UnboundLocalError", "execute_fn">>]
                          ELSE /\ pc' = "autodiff"
                               /\ e' = [frame EXCEPT !.routed = TRUE]
    /\ UNCHANGED w
    /\ UNCHANGED aux

\* the integration calls execute_fn(tapes, **gradient_kwargs)
AutodiffCallsExecuteFn ==
    /\ pc = "autodiff"
    /\ e.ncb < MaxCallbacks
    /\ \E tapes \in ExecBatches :
         IF e.execute_fn = "lambda: execute_fn_wrapper"
         THEN LET c == GK.cache
                  n == IF c = None THEN Len(tapes)
                       ELSE Cardinality({i \in 1..Len(tapes) :
                                            tape_hash(tapes[i]) \notin DOMAIN heap[c]})
              IN  \E dev \in Answers(n) :
                     LET f == execute_fn_wrapper(tapes, c, heap, dev)
                     IN  /\ heap' = IF c = None THEN heap ELSE [heap EXCEPT ![c] = f.post]
                         /\ pc' = IF f.error = "none" THEN "autodiff" ELSE "raised"
                         /\ e' = [e EXCEPT !.ncb = @ + 1,
                                           !.devlog = Append(@, "batch_execute"),
                                           !.error = IF f.error = "none" THEN @ ELSE <<f.error>>]
         ELSE \E raises \in BOOLEAN :
                /\ heap' = heap
                /\ pc' = IF raises THEN "raised" ELSE "autodiff"
                /\ e' = [e EXCEPT !.ncb = @ + 1,
                                  !.devlog = Append(@, IF e.execute_fn = "device.execute_and_gradients"
                                                       THEN "execute_and_gradients"
                                                       ELSE "batch_execute"),
                                  !.error = IF raises THEN <<"DeviceError">> ELSE @]
    /\ UNCHANGED <<G, w>>
    /\ UNCHANGED aux

\* the integration calls gradient_fn: device.gradients is a backend
\* operation, a gradient transform is not
AutodiffCallsGradientFn ==
    /\ pc = "autodiff"
    /\ e.ncb < MaxCallbacks
    /\ e.gradient_fn # None
    /\ \E raises \in BOOLEAN :
         /\ pc' = IF raises THEN "raised" ELSE "autodiff"
         /\ e' = [e EXCEPT !.ncb = @ + 1,
                           !.devlog = IF e.gradient_fn = "device.gradients"
                                      THEN Append(@, "gradients") ELSE @,
                           !.error = IF raises
                                     THEN IF e.gradient_fn = "device.gradients"
                                          THEN <<"DeviceError">> ELSE <<"TransformError">>
                                     ELSE @]
    /\ UNCHANGED <<heap, G, w>>
    /\ UNCHANGED aux

\* the integration itself raises
AutodiffRaises ==
    /\ pc = "autodiff"
    /\ pc' = "raised"
    /\ e' = [e EXCEPT !.error = <<"AutodiffError">>]
    /\ UNCHANGED <<heap, G, w>>
    /\ UNCHANGED aux

\* lines 184-192: execute_autograd returns, execute clears the cache and returns
ExecuteReturns ==
    /\ pc = "autodiff"
    /\ pc' = "returned"
    /\ LET c == Cleanup(GK, NewObj)
       IN  /\ heap' = IF c # GK.cache THEN [heap EXCEPT ![c] = EmptyDict] ELSE heap
           /\ SetCache(c)
    /\ UNCHANGED w
    /\ UNCHANGED aux

\* the caller's cache U holds results of earlier work
InitE ==
    /\ heap \in {[o \in ObjIds |-> IF o = "U" THEN d ELSE EmptyDict] :
                    d \in {x \in Dicts : DOMAIN x = {tape_hash(TapeA)}}}
    /\ G = [other |-> FALSE, cache |-> None]
    /\ pc = "idle"
    /\ w = NoFrame
    /\ e = NoExec
    /\ hf = NoHash
    /\ hist = NoHist
    /\ backend = "any"

NextE ==
    \/ CallerSetsOptions
    \/ ExecuteBegin
    \/ AutodiffCallsExecuteFn
    \/ AutodiffCallsGradientFn
    \/ AutodiffRaises
    \/ ExecuteReturns
    \/ Resume

SpecE == InitE /\ [][NextE]_vars

(***************************************************************************)
(* tape_hash on two tapes (SpecH)                                          *)
(***************************************************************************)
\* operations that differ from the first one in name, in wires, in data, and
\* two that differ from each other in the ninth decimal of an array only
HashOps == { <<"RX", <<0>>, << <<"float", 100000000>> >> >>,
             <<"RY", <<0>>, << <<"float", 100000000>> >> >>,
             <<"RX", <<1>>, << <<"float", 100000000>> >> >>,
             <<"RX", <<0>>, << <<"float", 200000000>> >> >>,
             <<"QubitUnitary", <<0>>, << <<"array", 123456789>> >> >>,
             <<"QubitUnitary", <<0>>, << <<"array", 123456791>> >> >> }

\* measurements that differ in the return type only
HashMeas == { <<"PauliZ", <<0>>, << >>, "expval">>,
              <<"PauliZ", <<0>>, << >>, "var">> }

HashTapes == [operations : SeqsUpTo(HashOps, MaxOps), measurements : SeqsUpTo(HashMeas, MaxMeas)]

InitH ==
    /\ heap = [o \in ObjIds |-> EmptyDict]
    /\ G = [other |-> FALSE, cache |-> None]
    /\ pc = "idle"
    /\ w = NoFrame
    /\ e = NoExec
    /\ hf \in [done : {FALSE}, a : HashTapes, b : HashTapes, ka : {<< >>}, kb : {<< >>}]
    /\ hist = NoHist
    /\ backend = "any"

\* tape_hash is called on each of the two tapes
HashTwoTapes ==
    /\ ~hf.done
    /\ hf' = [hf EXCEPT !.done = TRUE, !.ka = tape_hash(hf.a), !.kb = tape_hash(hf.b)]
    /\ UNCHANGED <<heap, G, pc, w, e, hist, backend>>

NextH == HashTwoTapes

SpecH == InitH /\ [][NextH]_vars

(***************************************************************************)
(* A sequence of execute_fn_wrapper calls on one cache (SpecS)             *)
(***************************************************************************)
\* the batches of the tapes A and B whose tapes have pairwise distinct
\* fingerprints
DistinctBatches ==
    {b \in SeqsUpTo({TapeA, TapeB}, MaxBatch) : \A i, j \in 1..Len(b) : i # j => tape_hash(b[i]) # tape_hash(b[j])}

\* the counts after the tapes of sent went to the backend once more
Counted(count, sent) ==
    [h \in Fingerprints |->
        LET n == count[h] + Cardinality({k \in 1..Len(sent) : tape_hash(sent[k]) = h})
        IN  IF n > MaxCount THEN MaxCount ELSE n]

\* the caller runs one batch of distinct fingerprints through
\* execute_fn_wrapper with its cache U; the history counts what went to the
\* backend, in all calls and in the calls that returned, and may keep the
\* frame of one call that returned
RunDistinctBatch ==
    /\ pc = "idle"
    /\ \E tapes \in DistinctBatches, remember \in BOOLEAN :
         LET n == Cardinality({i \in 1..Len(tapes) : tape_hash(tapes[i]) \notin DOMAIN heap["U"]})
         IN  \E dev \in Answers(n) :
                LET f == execute_fn_wrapper(tapes, "U", heap, dev)
                    keep == remember /\ f.error = "none" /\ hist.mem.error = "nocall"
                IN  /\ w' = f
                    /\ heap' = [heap EXCEPT !["U"] = f.post]
                    /\ pc' = IF f.error = "none" THEN "returned" ELSE "raised"
                    /\ hist' = [submitted |-> Counted(hist.submitted, f.sent[1]),
                                returned |-> IF f.error = "none"
                                             THEN Counted(hist.returned, f.sent[1])
                                             ELSE hist.returned,
                                mem |-> IF keep THEN f ELSE hist.mem,
                                now |-> keep]
    /\ UNCHANGED <<G, e, hf, backend>>

NextS == RunDistinctBatch \/ Resume

SpecS == Init /\ [][NextS]_vars

(***************************************************************************)
(* A backend that is a function of the fingerprint (SpecD)                 *)
(***************************************************************************)
\* what device.batch_execute returns for the tapes, when the result of a
\* tape is the one the backend b gives its fingerprint
batch_execute(b, tapes) == [k \in 1..Len(tapes) |-> b[tape_hash(tapes[k])]]

\* as Init, with a backend that gives every fingerprint one result
InitD ==
    /\ heap = [o \in ObjIds |-> EmptyDict]
    /\ G = [other |-> FALSE, cache |-> None]
    /\ pc = "idle"
    /\ w = NoFrame
    /\ e = NoExec
    /\ hf = NoHash
    /\ hist = NoHist
    /\ backend \in [Fingerprints -> Results]

\* the caller runs one batch through execute_fn_wrapper, with its cache U or
\* with no cache; the backend raises or answers the tapes it is sent
RunBatchFn ==
    /\ pc = "idle"
    /\ \E tapes \in Batches, c \in {None, "U"}, raises \in BOOLEAN :
         LET sent == execute_fn_wrapper(tapes, c, heap, [raises |-> TRUE, res |-> << >>]).sent[1]
             dev == [raises |-> raises,
                     res |-> IF raises THEN << >> ELSE batch_execute(backend, sent)]
             f == execute_fn_wrapper(tapes, c, heap, dev)
         IN  /\ w' = f
             /\ heap' = IF c = None THEN heap ELSE [heap EXCEPT ![c] = f.post]
             /\ pc' = IF f.error = "none" THEN "returned" ELSE "raised"
    /\ UNCHANGED <<G, e, hf, hist, backend>>

NextD == RunBatchFn \/ Resume

SpecD == InitD /\ [][NextD]_vars

(***************************************************************************)
(* Properties of execute_fn_wrapper (SpecW)                                *)
(***************************************************************************)
\* the call recorded in w used a cache
WithCache == w.error # "nocall" /\ w.cache # None

\* the fingerprint of the i-th tape of the call was not in the cache at call time
IsMiss(i) == tape_hash(w.tapes[i]) \notin DOMAIN w.pre

\* the position of index i among the misses of the call
Rank(i) == Cardinality({j \in 1..i : IsMiss(j)})

\* the backend answered with as many results as it was sent tapes
LengthPreserving == ~w.dev.raises /\ Len(w.dev.res) = Len(w.sent[1])

\* C1: with a cache and a length-preserving backend, the call returns one
\* result per input tape, in input order: the value cached under the tape's
\* fingerprint for a hit, the backend's result for that tape for a miss.
OrderPreservation ==
    (WithCache /\ LengthPreserving) =>
        /\ w.error = "none"
        /\ Len(w.final_res) = Len(w.tapes)
        /\ \A i \in 1..Len(w.tapes) :
              w.final_res[i] = IF IsMiss(i) THEN w.dev.res[Rank(i)]
                               ELSE w.pre[tape_hash(w.tapes[i])]

\* a returned call with a miss, then a hit, then a miss with another result
OrderPreservationWitness ==
    /\ WithCache /\ LengthPreserving /\ pc = "returned"
    /\ Len(w.tapes) = 3
    /\ IsMiss(1) /\ ~IsMiss(2) /\ IsMiss(3)
    /\ w.dev.res[1] # w.dev.res[2]
    /\ w.final_res[2] # w.final_res[3]

\* C2: with a cache, batch_execute is called exactly once, with exactly the
\* tapes whose fingerprint was not cached at call time, in input order.
BackendReceivesMisses ==
    WithCache =>
        /\ Len(w.sent) = 1
        /\ w.sent[1] = SelectSeq(w.tapes, LAMBDA t : tape_hash(t) \notin DOMAIN w.pre)

\* cache = {fp(j1): R}, batch [j1, j2]: the backend receives [j2]
BackendReceivesMissesWitness ==
    /\ WithCache /\ pc = "returned"
    /\ Len(w.tapes) = 2
    /\ ~IsMiss(1) /\ IsMiss(2)
    /\ w.sent = << <<w.tapes[2]>> >>

\* C3: within one batch the backend receives at most one tape per fingerprint.
IntraBatchDedup ==
    WithCache =>
        \A k \in 1..Len(w.sent) : \A a, b \in 1..Len(w.sent[k]) :
            a # b => tape_hash(w.sent[k][a]) # tape_hash(w.sent[k][b])

\* C4: after a successful call with a cache, the cache has an entry for the
\* fingerprint of every tape of the batch, and for every miss the entry is
\* the result the backend returned for that tape.
CachePopulation ==
    (WithCache /\ LengthPreserving /\ w.error = "none" /\ pc = "returned") =>
        \A i \in 1..Len(w.tapes) :
            /\ tape_hash(w.tapes[i]) \in DOMAIN heap[w.cache]
            /\ IsMiss(i) => heap[w.cache][tape_hash(w.tapes[i])] = w.dev.res[Rank(i)]

\* C5: with no cache, the whole batch goes to the backend in one call and the
\* backend's answer is returned as it is.
NoCachePassthrough ==
    (w.error # "nocall" /\ w.cache = None) =>
        /\ w.sent = <<w.tapes>>
        /\ ~w.dev.raises => (w.error = "none" /\ w.final_res = w.dev.res)
        /\ w.dev.raises => w.error = "DeviceError"

\* a no-cache call on a batch that holds the same tape twice, answered with
\* two different results
NoCachePassthroughWitness ==
    /\ w.error = "none" /\ w.cache = None /\ pc = "returned"
    /\ Len(w.tapes) = 2 /\ w.tapes[1] = w.tapes[2]
    /\ Len(w.final_res) = 2 /\ w.final_res[1] # w.final_res[2]

(***************************************************************************)
(* Properties of execute (SpecE)                                           *)
(***************************************************************************)
ForwardError == <<"ValueError", "Gradient transforms cannot be used with mode='forward'">>

\* no backend operation ran and the integration was not called
NothingInvoked == e.devlog = << >> /\ ~e.routed /\ e.ncb = 0

\* C6: a gradient transform with mode "forward" fails with the configuration
\* error before any backend operation or the integration is invoked, for
\* every interface.
ForwardTransformRejected ==
    (e.called /\ e.gradient_fn_arg # "device" /\ e.mode = "forward") =>
        /\ pc = "raised"
        /\ e.error = ForwardError
        /\ NothingInvoked

\* the rejected call, made with an interface that is not supported either
ForwardTransformRejectedWitness ==
    /\ e.called /\ e.gradient_fn_arg = "transform" /\ e.mode = "forward"
    /\ e.interface = "torch"
    /\ pc = "raised" /\ e.error = ForwardError

TransformMode == e.called /\ e.injected # None

\* C8: once a transform-mode call (mode backward or best) has completed, by
\* return or by error, the cache under the "cache" key of the gradient
\* options the caller passed is empty.
CacheClearedOnCompletion ==
    (TransformMode /\ e.mode \in {"backward", "best"} /\ e.shared
       /\ pc \in {"returned", "raised"}) =>
        (G.cache # None /\ heap[G.cache] = EmptyDict)

\* C9: a cache with entries that the caller passed in the gradient options
\* is still under the "cache" key, entries intact, once the call has completed.
CallerCacheKept ==
    (e.called /\ pc \in {"returned", "raised"} /\ e.passed = "G"
       /\ e.mode \in {"forward", "backward", "best"}
       /\ e.pre_cache # None /\ e.pre_content # EmptyDict) =>
        /\ G.cache = e.pre_cache
        /\ heap[e.pre_cache] = e.pre_content

\* C10: with the native strategy, modes forward and best select
\* device.execute_and_gradients and no gradient function, mode backward
\* selects a function calling device.batch_execute and device.gradients;
\* with the supported interface the integration is called with them, the
\* backend sees only the operations of the selected functions, and no cache
\* is put into the gradient options.
NativeRouting ==
    (e.called /\ e.gradient_fn_arg = "device" /\ e.mode \in {"forward", "backward", "best"}) =>
        /\ e.mode \in {"forward", "best"} =>
              /\ e.execute_fn = "device.execute_and_gradients"
              /\ e.gradient_fn = None
              /\ \A k \in 1..Len(e.devlog) : e.devlog[k] = "execute_and_gradients"
        /\ e.mode = "backward" =>
              /\ e.execute_fn = "lambda: device.batch_execute"
              /\ e.gradient_fn = "device.gradients"
              /\ \A k \in 1..Len(e.devlog) : e.devlog[k] \in {"batch_execute", "gradients"}
        /\ e.interface = "autograd" => e.routed
        /\ e.injected = None
        /\ e.pre_cache = None => GK.cache = None

\* a native call in mode backward that returned after the backend ran
\* batch_execute and then gradients, with options that hold no cache
NativeRoutingWitness ==
    /\ e.called /\ e.gradient_fn_arg = "device" /\ e.mode = "backward"
    /\ pc = "returned"
    /\ e.devlog = <<"batch_execute", "gradients">>
    /\ e.shared /\ G.cache = None

\* C11: a gradient transform with mode backward or best selects the caching
\* batch runner as execute_fn and the transform as gradient_fn, the
\* integration is called with them, and before the integration has run
\* anything the "cache" key of the options holds a new, empty dict, whatever
\* an earlier call left under that key.
TransformRouting ==
    (e.called /\ e.gradient_fn_arg = "transform" /\ e.mode \in {"backward", "best"}) =>
        /\ e.execute_fn = "lambda: execute_fn_wrapper"
        /\ e.gradient_fn = "transform"
        /\ e.interface = "autograd" => e.routed
        /\ e.injected \notin {None, "U", e.pre_cache}
        /\ (e.ncb = 0 /\ pc # "returned") =>
              (GK.cache = e.injected /\ heap[GK.cache] = EmptyDict)
        /\ \A k \in 1..Len(e.devlog) : e.devlog[k] = "batch_execute"

\* the integration is about to run a transform-mode call whose options came
\* in holding the filled cache that an earlier, failed call left behind
TransformRoutingWitness ==
    /\ e.called /\ e.gradient_fn_arg = "transform" /\ e.mode = "best"
    /\ pc = "autodiff" /\ e.ncb = 0 /\ e.shared
    /\ e.pre_cache \notin {None, "U"} /\ e.pre_content # EmptyDict
    /\ heap[G.cache] = EmptyDict

(***************************************************************************)
(* Failures and cache writes of execute_fn_wrapper (SpecW)                 *)
(***************************************************************************)
\* C12: when batch_execute raises during a call with a cache, the call
\* raises the backend's error and the cache is as it was before the call.
BackendFailureLeavesCache ==
    (WithCache /\ w.dev.raises) =>
        /\ pc = "raised"
        /\ w.error = "DeviceError"
        /\ w.final_res = << >>
        /\ heap[w.cache] = w.pre

\* the backend raised on a batch with a hit and a miss, the cache had entries
BackendFailureLeavesCacheWitness ==
    /\ WithCache /\ w.dev.raises /\ pc = "raised"
    /\ w.pre # EmptyDict
    /\ Len(w.tapes) = 2 /\ ~IsMiss(1) /\ IsMiss(2)

\* C13: when the backend returns fewer or more results than the tapes it was
\* sent, the call raises and returns nothing.
ResultCountChecked ==
    (WithCache /\ ~w.dev.raises /\ Len(w.dev.res) # Len(w.sent[1])) =>
        /\ pc = "raised"
        /\ w.error # "none"
        /\ w.final_res = << >>

\* C14: the call only inserts: every entry of the cache before the call is
\* still there with its value, and no store of the call replaces an entry
\* that exists, be it from before the call or from an earlier store of the
\* same call, by another value.
InsertionsOnly ==
    WithCache =>
        /\ \A h \in DOMAIN w.pre : h \in DOMAIN heap[w.cache] /\ heap[w.cache][h] = w.pre[h]
        /\ \A k \in 1..Len(w.writes) :
              /\ w.writes[k][1] \in DOMAIN w.pre => w.pre[w.writes[k][1]] = w.writes[k][2]
              /\ \A j \in 1..(k - 1) :
                    w.writes[j][1] = w.writes[k][1] => w.writes[j][2] = w.writes[k][2]

\* C17: every entry that was in the cache before the call is in it after the
\* call with the same value, whether the call returned or raised.
PriorEntriesKept ==
    WithCache =>
        \A h \in DOMAIN w.pre : h \in DOMAIN heap[w.cache] /\ heap[w.cache][h] = w.pre[h]

\* a call that raised IndexError after it had stored one result, on a cache
\* that had an entry, for a batch with a hit and two misses
PriorEntriesKeptWitness ==
    /\ WithCache /\ pc = "raised" /\ w.error = "IndexError"
    /\ w.pre # EmptyDict /\ Len(w.writes) = 1
    /\ Len(w.tapes) = 3 /\ ~IsMiss(1) /\ IsMiss(2) /\ IsMiss(3)
    /\ heap[w.cache] # w.pre

(***************************************************************************)
(* Cleanup of execute (SpecE)                                              *)
(***************************************************************************)
\* C16: after a transform-mode call has returned, the dict that was injected
\* for the call, which received the results during the call, holds no
\* entries (the cleanup empties that dict instead of putting another one
\* under the "cache" key).
InjectedCacheEmptied ==
    (TransformMode /\ e.mode \in {"backward", "best"} /\ pc = "returned") =>
        heap[e.injected] = EmptyDict

(***************************************************************************)
(* Properties of tape_hash (SpecH)                                         *)
(***************************************************************************)
\* C15: two tapes have the same fingerprint key exactly when they have the
\* same ordered sequence of (name, wires, data) of operations followed by
\* (name, wires, data, return type) of measurements: tapes that differ in
\* any of those fields, or in the order of their operations, have different
\* keys.
FingerprintFaithful ==
    hf.done => ((hf.a = hf.b) <=> (hf.ka = hf.kb))

(***************************************************************************)
(* Properties of a sequence of calls on one cache (SpecS)                  *)
(***************************************************************************)
\* the call in w ran the batch of an earlier call that returned
IsRepeat ==
    /\ w.error # "nocall"
    /\ hist.mem.error = "none" /\ ~hist.now
    /\ w.tapes = hist.mem.tapes

\* a repeated batch sends the backend nothing, leaves the cache as it was
\* and, when it returns, returns what the first run returned
RepeatIsFree ==
    IsRepeat =>
        /\ w.sent = << << >> >>
        /\ heap["U"] = w.pre
        /\ w.error = "none" => w.final_res = hist.mem.final_res

\* C18 as stated: over calls that share one cache and whose batches hold
\* distinct fingerprints, each fingerprint goes to the backend at most once
\* in total, and a repeated batch is free.
SubmittedOnceInTotal ==
    /\ \A h \in Fingerprints : hist.submitted[h] <= 1
    /\ RepeatIsFree

\* C18 as amended: each fingerprint goes to the backend at most once in the
\* calls that return (a call that raised may have sent it before), and a
\* repeated batch is free.
SubmittedOncePerReturn ==
    /\ \A h \in Fingerprints : hist.returned[h] <= 1
    /\ \A h \in Fingerprints : hist.returned[h] = 1 => h \in DOMAIN heap["U"]
    /\ RepeatIsFree

\* a batch of two tapes is repeated and returns, and one fingerprint has gone
\* to the backend twice because a call that sent it raised
SubmittedOncePerReturnWitness ==
    /\ IsRepeat /\ pc = "returned"
    /\ Len(w.tapes) = 2
    /\ w.final_res[1] # w.final_res[2]
    /\ \E h \in Fingerprints : hist.submitted[h] = 2 /\ hist.returned[h] = 1

(***************************************************************************)
(* Properties with a backend that is a function of the fingerprint (SpecD) *)
(***************************************************************************)
\* C19: when the result of the backend depends on the fingerprint only, what
\* execute_fn_wrapper returns for a batch is what batch_execute returns for
\* that batch, and every cache entry is the result the backend gives its
\* fingerprint.
CachingTransparent ==
    /\ pc = "returned" => w.final_res = batch_execute(backend, w.tapes)
    /\ \A h \in DOMAIN heap["U"] : heap["U"][h] = backend[h]

\* a returned call with the cache, whose batch holds a tape twice, a hit and
\* tapes of different results
CachingTransparentWitness ==
    /\ pc = "returned" /\ w.cache = "U"
    /\ Len(w.tapes) = 3
    /\ w.tapes[1] = w.tapes[3]
    /\ tape_hash(w.tapes[2]) \in DOMAIN w.pre
    /\ tape_hash(w.tapes[1]) \notin DOMAIN w.pre
    /\ w.final_res[1] # w.final_res[2]

====
